---- MODULE Spec2Model ----
(***************************************************************************)
(* parser-utils (src/index.js, the latest variant, lines 155-381):         *)
(* normalisation of "file" objects.                                        *)
(*                                                                         *)
(* JavaScript values are records [t, s, n, m]: t is the kind of the value, *)
(* s the text of a string or boolean, n the number, m the own enumerable   *)
(* properties of a plain object (a function from property names to         *)
(* values).  The kind "getter" is the accessor property that defineGetter  *)
(* installs: it holds no value, a read of it returns the content of the    *)
(* record that owns it.                                                    *)
(*                                                                         *)
(* lodash is modelled as the 2.4 line that the repository was written      *)
(* against: _.merge copies plain objects recursively, assigns every other  *)
(* value, and iterates nothing when a source is not an object.             *)
(***************************************************************************)
EXTENDS Integers, FiniteSets, Sequences, TLC

VARIABLES
    file,        \* utils.file, the shared default record (own properties)
    op,          \* the last module function called: "init" before any call
    fileBefore,  \* the `file` / `obj` argument as it was when the call began
    fileAfter,   \* the same argument object when the call ended
    optionsArg,  \* the `options` / `locals` argument of the call
    ret,         \* the value the call returned (Undefined when it threw)
    threw,       \* the call ended with a TypeError
    shared,      \* ret is utils.file itself (returned by reference)
    passedBack,  \* the argument was the record the previous call returned
    canon,       \* ret came from extendFile(x), x of canonical shape, no options
    modified,    \* a caller has assigned to a property of a returned record
    steps        \* calls and caller assignments so far

vars == <<file, op, fileBefore, fileAfter, optionsArg, ret, threw, shared,
          passedBack, canon, modified, steps>>

\* largest number used as a scalar input
MaxNum == 2

\* longest sequence of calls and caller assignments explored
MaxSteps == 3

-----------------------------------------------------------------------------
(* JavaScript values *)

Empty == [key \in {} |-> 0]

Val(t, s, n, m) == [t |-> t, s |-> s, n |-> n, m |-> m]

Undefined == Val("undefined", "", 0, Empty)

Null == Val("null", "", 0, Empty)

Str(s) == Val("string", s, 0, Empty)

Num(n) == Val("number", "", n, Empty)

Bool(s) == Val("boolean", s, 0, Empty)

Obj(m) == Val("object", "", 0, m)

Getter == Val("getter", "", 0, Empty)

\* !v
Falsy(v) ==
    \/ v.t \in {"undefined", "null"}
    \/ v.t = "string" /\ v.s = ""
    \/ v.t = "number" /\ v.n = 0
    \/ v.t = "boolean" /\ v.s = "false"

isPlainObject(v) == v.t = "object"

\* o[key] for own properties o: undefined when the property is absent
Prop(o, key) == IF key \in DOMAIN o THEN o[key] ELSE Undefined

\* o[key] = v
Assign(o, key, v) ==
    [k \in DOMAIN o \cup {key} |-> IF k = key THEN v ELSE o[k]]

\* delete o[key]
Delete(o, key) == [k \in DOMAIN o \ {key} |-> o[k]]

\* What a reader of the record o sees: the accessor orig.content yields o.content.
Read(o) ==
    IF /\ "orig" \in DOMAIN o
       /\ isPlainObject(o["orig"])
       /\ Prop(o["orig"].m, "content") = Getter
    THEN Assign(o, "orig", Obj(Assign(o["orig"].m, "content", Prop(o, "content"))))
    ELSE o

-----------------------------------------------------------------------------
(* lodash *)

RECURSIVE baseMerge(_, _)
\* baseMerge(object, source): source's own properties merged into object.
baseMerge(object, source) ==
    [key \in DOMAIN object \cup DOMAIN source |->
        IF key \notin DOMAIN source THEN object[key]
        ELSE IF isPlainObject(source[key])
             THEN Obj(baseMerge(IF isPlainObject(Prop(object, key))
                                THEN object[key].m ELSE Empty,
                                source[key].m))
             ELSE source[key]]

\* _.merge(object, source), source any value
merge(object, source) ==
    IF isPlainObject(source) THEN baseMerge(object, source.m) ELSE object

\* _.pick(object, props)
pick(object, props) == [key \in DOMAIN object \cap props |-> object[key]]

\* _.difference(keys, file)
difference(a, b) == a \ b

-----------------------------------------------------------------------------
(* index.js *)

\* utils.file as the module defines it
Default ==
    [path |-> Str(""), content |-> Str(""), orig |-> Obj(Empty), data |-> Obj(Empty)]

dataProps == {"locals", "data"}

fileKeys == DOMAIN Default

\* diffKeys with Object.keys(o) left out
diffKeysPropsOnly(o, props) == difference(props, fileKeys)

diffKeys(o, props) == difference(DOMAIN o \cup props, fileKeys)

\* defineGetter that installs nothing
defineGetterSkipped(obj, name) == obj

defineGetter(obj, name) == Assign(obj, name, Getter)

\* siftKeys that does not pick the canonical keys of the merged object
siftKeysUnpicked(defaults, obj, props) ==
    LET merged == merge(merge(Empty, Obj(defaults)), Obj(Read(obj)))
        diff   == diffKeys(merged, props)
        orig   == merge(merge(Empty, merged["orig"]), Obj(pick(merged, diff)))
    IN  Assign(merged, "orig", Obj(defineGetter(orig, "content")))

\* siftKeys with utils.file given: defaults is utils.file when the call reads it.
siftKeysWith(defaults, obj, props) ==
    LET merged == merge(merge(Empty, Obj(defaults)), Obj(Read(obj)))
        diff   == diffKeys(merged, props)
        o      == pick(merged, fileKeys)
        orig   == merge(merge(Empty, o["orig"]), Obj(pick(merged, diff)))
    IN  Assign(o, "orig", Obj(defineGetter(orig, "content")))

siftKeys(obj, props) == siftKeysWith(file, obj, props)

\* The nested mapping o[key] is merged over o, then o[key] is deleted.
\* (_.merge(o, o[key]) writes into o[key] itself when o[key][key] is a mapping;
\* the files and options drawn below hold at most a scalar under data.data.)
flattenObject(o, key) ==
    IF key \in DOMAIN o THEN Delete(merge(o, o[key]), key) ELSE o

\* mergeData that returns the merged object without flattening it
mergeDataUnflattened(obj, locals) ==
    LET o == pick(obj, dataProps)
    IN  Assign(o, "data", Obj(merge(merge(Empty, Obj(o)), locals)))

mergeData(obj, locals) ==
    LET o    == pick(obj, dataProps)
        data == merge(merge(Empty, Obj(o)), locals)
    IN  flattenObject(data, "data")

\* extendFile(file, options).  isDefault: the argument is the utils.file object
\* itself, so that the assignments to it are assignments to utils.file.
\* The result: what is returned, whether it is utils.file by reference, whether
\* the call threw, and the argument object as the call leaves it.
extendFileOn(defaults, f, options, isDefault) ==
    LET opts == IF isPlainObject(options) THEN options ELSE Obj(Empty)
    IN
    IF Falsy(f)
    THEN [ret |-> Obj(defaults), shared |-> TRUE, threw |-> FALSE, arg |-> f]
    ELSE IF f.t = "string"
    THEN LET o  == [content |-> f]
             o2 == Assign(o, "data", Obj(mergeData(o, opts)))
         IN  [ret |-> Obj(siftKeysWith(defaults, o2, {})), shared |-> FALSE,
              threw |-> FALSE, arg |-> f]
    ELSE IF isPlainObject(f)
    THEN LET o  == f.m
             o1 == IF ~Falsy(Prop(o, "original"))
                   THEN Delete(Assign(o, "orig", o["original"]), "original")
                   ELSE o
             o2 == Assign(o1, "data", Obj(mergeData(o1, opts)))
         IN  [ret |-> Obj(siftKeysWith(IF isDefault THEN o2 ELSE defaults, o2, {})),
              shared |-> FALSE, threw |-> FALSE, arg |-> Obj(o2)]
    \* a truthy primitive: `o.data = ...` on it is a TypeError in strict mode
    ELSE [ret |-> Undefined, shared |-> FALSE, threw |-> TRUE, arg |-> f]

extendFile(f, options) == extendFileOn(file, f, options, FALSE)

-----------------------------------------------------------------------------
(* The values callers pass *)

\* A mapping from a record of optional fields: Undefined marks an absent one.
Build(r) == [k \in {j \in DOMAIN r : r[j] # Undefined} |-> r[k]]

Scalars ==
    {Undefined, Null, Str(""), Str("foo"), Bool("false"), Bool("true")}
        \cup {Num(n) : n \in 0..MaxNum}

\* records with metadata under `data` and `locals`
FamData ==
    {Obj(Build([content |-> Str("foo"), data |-> d, locals |-> l])) :
        d \in {Undefined, Obj([a |-> Num(1), b |-> Obj([c |-> Num(1)])])},
        l \in {Undefined, Obj([a |-> Num(0), z |-> Str("z")])}}

\* records with a property that is no canonical field
FamOverflow ==
    {Obj(Build([content |-> Str("foo"), title |-> t, orig |-> g])) :
        t \in {Str("Bar"), Obj([x |-> Num(1)])},
        g \in {Undefined, Obj([title |-> Obj([y |-> Num(2)])])}}

\* records with the legacy `original`
FamOriginal ==
    {Obj([content |-> Str("foo"), original |-> g]) :
        g \in {Str(""), Num(0), Bool("false"), Str("fm"), Obj([x |-> Num(1)])}}

\* records of the canonical shape
FamCanon ==
    {Obj([path |-> Str("a.md"), content |-> Str("foo"), data |-> d, orig |-> g]) :
        d \in {Obj(Empty), Obj([a |-> Num(1), data |-> Num(2)]),
               Obj([locals |-> Obj([a |-> Num(1)])])},
        g \in {Obj(Empty), Obj([content |-> Str("old"), x |-> Num(1)])}}

Files == Scalars \cup FamData \cup FamOverflow \cup FamOriginal \cup FamCanon

Options ==
    {Undefined, Obj(Empty), Obj([a |-> Num(2), b |-> Obj([d |-> Num(2)])]),
     Obj([locals |-> Obj([a |-> Num(2)])]), Obj([data |-> Obj([a |-> Num(2)])])}

Contents == {Str("new")}

isCanonical(f) == isPlainObject(f) /\ DOMAIN f.m = fileKeys

-----------------------------------------------------------------------------
(* The module in use *)

Init ==
    /\ file = Default
    /\ op = "init"
    /\ fileBefore = Undefined
    /\ fileAfter = Undefined
    /\ optionsArg = Undefined
    /\ ret = Undefined
    /\ threw = FALSE
    /\ shared = FALSE
    /\ passedBack = FALSE
    /\ canon = FALSE
    /\ modified = FALSE
    /\ steps = 0

\* utils.extendFile(f, options), f a value the caller made
ExtendFile(f, options) ==
    \E r \in {extendFile(f, options)} :
        /\ op' = "extendFile"
        /\ fileBefore' = f
        /\ fileAfter' = r.arg
        /\ optionsArg' = options
        /\ ret' = r.ret
        /\ threw' = r.threw
        /\ shared' = r.shared
        /\ passedBack' = FALSE
        /\ canon' = (isCanonical(f) /\ options = Undefined)
        /\ UNCHANGED <<file, modified>>

\* utils.extendFile(r, options), r the record the previous extendFile returned:
\* r may be utils.file itself, and then the call's assignments change utils.file.
ExtendFileReturned(options) ==
    /\ op = "extendFile"
    /\ ~threw
    /\ \E r \in {extendFileOn(file, ret, options, shared)} :
           /\ fileBefore' = ret
           /\ fileAfter' = r.arg
           /\ file' = IF shared THEN r.arg.m ELSE file
           /\ ret' = r.ret
           /\ threw' = r.threw
           /\ shared' = r.shared
    /\ op' = "extendFile"
    /\ optionsArg' = options
    /\ passedBack' = TRUE
    /\ canon' = (canon /\ options = Undefined)
    /\ UNCHANGED modified

\* utils.siftKeys(obj, props)
SiftKeys(obj, props) ==
    /\ op' = "siftKeys"
    /\ fileBefore' = obj
    /\ fileAfter' = obj
    /\ optionsArg' = Undefined
    /\ ret' = Obj(siftKeys(obj.m, props))
    /\ threw' = FALSE
    /\ shared' = FALSE
    /\ passedBack' = FALSE
    /\ canon' = FALSE
    /\ UNCHANGED <<file, modified>>

\* utils.mergeData(obj, locals)
MergeData(obj, locals) ==
    /\ op' = "mergeData"
    /\ fileBefore' = obj
    /\ fileAfter' = obj
    /\ optionsArg' = locals
    /\ ret' = Obj(mergeData(obj.m, locals))
    /\ threw' = FALSE
    /\ shared' = FALSE
    /\ passedBack' = FALSE
    /\ canon' = FALSE
    /\ UNCHANGED <<file, modified>>

\* The caller's `r.content = v` on the record r that extendFile returned.
SetContent(v) ==
    /\ op = "extendFile"
    /\ ~threw
    /\ ret' = Obj(Assign(ret.m, "content", v))
    /\ file' = IF shared THEN ret'.m ELSE file
    /\ modified' = TRUE
    /\ canon' = FALSE
    /\ UNCHANGED <<op, fileBefore, fileAfter, optionsArg, threw, shared, passedBack>>

\* The caller's `r.orig.content = v`: the accessor's setter does nothing, a plain
\* property takes the value.
SetOrigContent(v) ==
    /\ op = "extendFile"
    /\ ~threw
    /\ LET orig == ret.m["orig"].m
       IN  ret' = IF Prop(orig, "content") = Getter
                  THEN ret
                  ELSE Obj(Assign(ret.m, "orig", Obj(Assign(orig, "content", v))))
    /\ file' = IF shared THEN ret'.m ELSE file
    /\ modified' = (modified \/ ret' # ret)
    /\ canon' = FALSE
    /\ UNCHANGED <<op, fileBefore, fileAfter, optionsArg, threw, shared, passedBack>>

Step ==
    /\ steps < MaxSteps
    /\ steps' = steps + 1

Next ==
    \/ \E f \in Files, options \in Options : Step /\ ExtendFile(f, options)
    \/ \E options \in Options : Step /\ ExtendFileReturned(options)
    \/ \E obj \in FamOverflow, props \in {{}, {"extra"}} : Step /\ SiftKeys(obj, props)
    \/ \E obj \in FamData, locals \in {Undefined, Obj([a |-> Num(2)])} :
            Step /\ MergeData(obj, locals)
    \/ \E v \in Contents : Step /\ SetContent(v)
    \/ \E v \in Contents : Step /\ SetOrigContent(v)

Spec == Init /\ [][Next]_vars

-----------------------------------------------------------------------------
(* Claims *)

\* an extendFile call has returned a record
Returned == op = "extendFile" /\ ~threw

\* r.orig.content as a reader of the record r gets it
OrigContent(r) == Prop(Read(r)["orig"].m, "content")

OverrideSource(options) ==
    IF "locals" \in DOMAIN options.m THEN options.m["locals"] ELSE options

\* C2: for a scalar key k of the file's own data that the options' override source
\* has too, the returned data holds the override source's value at k.
C2_OptionsWin ==
    (/\ Returned
     /\ ~passedBack
     /\ isPlainObject(fileBefore)
     /\ isPlainObject(Prop(fileBefore.m, "data"))
     /\ isPlainObject(optionsArg)
     /\ isPlainObject(OverrideSource(optionsArg)))
    => \A k \in DOMAIN fileBefore.m["data"].m \cap DOMAIN OverrideSource(optionsArg).m :
          ~isPlainObject(fileBefore.m["data"].m[k])
          => Prop(ret.m["data"].m, k) = OverrideSource(optionsArg).m[k]

\* C3: with own locals L, no own data and absent or empty options, the returned
\* data equals L and the result has no top-level `locals`.
C3_LocalsIntoData ==
    (/\ Returned
     /\ ~passedBack
     /\ isPlainObject(fileBefore)
     /\ isPlainObject(Prop(fileBefore.m, "locals"))
     /\ "data" \notin DOMAIN fileBefore.m
     /\ optionsArg \in {Undefined, Obj(Empty)})
    => /\ ret.m["data"] = fileBefore.m["locals"]
       /\ "locals" \notin DOMAIN ret.m

\* the keys of a file that are no canonical field (and not the legacy `original`)
UnknownKeys(f) == DOMAIN f.m \ (fileKeys \cup {"original"})

\* C4 as stated: every unknown top-level key k has orig[k] equal to file[k] and is
\* no top-level key of the result.
C4_Relocated ==
    (Returned /\ isPlainObject(fileBefore))
    => \A k \in UnknownKeys(fileBefore) :
          /\ k \notin DOMAIN ret.m
          /\ Prop(ret.m["orig"].m, k) = fileBefore.m[k]

\* what the overflow is merged into: utils.file's orig and the file's own orig
\* (the legacy `original` when it is truthy)
OrigBase(f) ==
    merge(merge(Empty, file["orig"]),
          IF ~Falsy(Prop(f.m, "original")) THEN f.m["original"] ELSE Prop(f.m, "orig"))

\* C4 amended: k is no top-level key of the result, and orig[k] equals file[k]
\* unless file[k] and the orig it is merged into both hold a mapping under k:
\* then orig[k] is that mapping deep-merged with file[k].
C4_RelocatedMerged ==
    (Returned /\ isPlainObject(fileBefore))
    => \A k \in UnknownKeys(fileBefore) :
          /\ k \notin DOMAIN ret.m
          /\ Prop(ret.m["orig"].m, k) =
                IF /\ isPlainObject(fileBefore.m[k])
                   /\ isPlainObject(Prop(OrigBase(fileBefore), k))
                THEN Obj(baseMerge(OrigBase(fileBefore)[k].m, fileBefore.m[k].m))
                ELSE fileBefore.m[k]

C4_Witness ==
    /\ Returned
    /\ isPlainObject(fileBefore)
    /\ isPlainObject(Prop(fileBefore.m, "title"))
    /\ isPlainObject(Prop(fileBefore.m, "orig"))
    /\ isPlainObject(Prop(ret.m["orig"].m, "title"))
    /\ DOMAIN ret.m["orig"].m["title"].m = {"x", "y"}

\* C5 as stated: for every returned record, whatever the input, orig.content reads
\* as the record's content, and an assignment to orig.content changes nothing.
C5_OrigContent ==
    /\ [](Returned => OrigContent(ret.m) = ret.m["content"])
    /\ [][(\E v \in Contents : SetOrigContent(v)) => ret' = ret]_vars

\* C5 amended: the same for the records returned for a truthy file (a non-empty
\* string or a mapping); a falsy file gets utils.file, whose orig has no accessor.
C5_OrigContentTruthy ==
    /\ [](Returned /\ ~Falsy(fileBefore) => OrigContent(ret.m) = ret.m["content"])
    /\ [][(\E v \in Contents : SetOrigContent(v)) /\ ~Falsy(fileBefore)
              => ret' = ret]_vars

C5_Witness ==
    /\ Returned
    /\ ~Falsy(fileBefore)
    /\ modified
    /\ ret.m["content"] = Str("new")
    /\ OrigContent(ret.m) = Str("new")

\* C6: extendFile returns for every file and options, and a non-string primitive
\* file without options yields the canonical defaults.
C6_Total ==
    op = "extendFile"
    => /\ ~threw
       /\ (fileBefore.t \in {"number", "boolean"} /\ optionsArg = Undefined /\ ~modified)
              => ret = Obj(Default)

\* C7: a falsy file gets a record equal to the canonical defaults, after any calls
\* of the module, as long as no caller has modified a returned record.
C7_FalsyDefault ==
    (op = "extendFile" /\ Falsy(fileBefore) /\ ~modified)
    => ~threw /\ ret = Obj(Default)

\* C8: extendFile(extendFile(x)) without options equals extendFile(x), field by
\* field, for x of the canonical shape.
C8_Idempotent ==
    (Returned /\ passedBack /\ canon) => Read(ret.m) = Read(fileBefore.m)

C8_Witness ==
    /\ Returned
    /\ passedBack
    /\ canon
    /\ "a" \in DOMAIN ret.m["data"].m
    /\ "x" \in DOMAIN ret.m["orig"].m
    /\ OrigContent(ret.m) = Str("foo")

\* C9: extendFile leaves the mapping passed as `file` as it was.
C9_ArgUnchanged ==
    (op = "extendFile" /\ isPlainObject(fileBefore)) => fileAfter = fileBefore

\* C10: a file's `original`, whatever its value, is what is merged into the
\* result's orig, and no `original` remains at the top level nor under orig.
C10_LegacyRename ==
    (Returned /\ isPlainObject(fileBefore) /\ "original" \in DOMAIN fileBefore.m)
    => /\ "original" \notin DOMAIN ret.m
       /\ "original" \notin DOMAIN ret.m["orig"].m
       /\ isPlainObject(fileBefore.m["original"])
              => \A k \in DOMAIN fileBefore.m["original"].m \ {"content"} :
                    Prop(ret.m["orig"].m, k) = fileBefore.m["original"].m[k]

====
